---------------------------- MODULE Spec2Model ----------------------------
(***************************************************************************)
(* Model of pkg/proxy/endpoint.go (stripe-cli): the EndpointClient that    *)
(* forwards captured webhook events to a local endpoint.                   *)
(*                                                                         *)
(* Strings are sequences of code points, so that the conversions the code  *)
(* applies (regexp replacement, SplitN, TrimSpace, ToLower, the canonical  *)
(* MIME form of a header key) are computed and not assumed.                *)
(***************************************************************************)
EXTENDS Integers, Sequences, FiniteSets, TLC

VARIABLES
    args,       \* arguments of the NewEndpointClient call that Construct makes
    clients,    \* the EndpointClients constructed so far (1..n -> client)
    fault,      \* "none", or the runtime panic that ended the program
    query,      \* the last routing predicate call and what it returned
    pending,    \* task -> the eventContext the task forwards
    pc,         \* task -> position of the task inside Post / PostV2
    call,       \* task -> locals of the task's Post / PostV2 call
    outCh,      \* the channel cfg.OutCh of the caller's EndpointConfig
    receiver,   \* TRUE while the channel's consumer waits in a receive
    received    \* task -> ErrorElements of that task the consumer has taken

vars == <<args, clients, fault, query, pending, pc, call, outCh, receiver, received>>

-----------------------------------------------------------------------------
(* Bounds                                                                  *)

\* Characters in the raw header arguments of one construction (separators
\* between the entries included).
MaxArgChars == 7
\* Length of the raw event subscription list.
MaxEvents == 2
\* Entries of a client header map / of an event's header map (request building).
MaxClientHeaders == 2
MaxEventHeaders == 2
\* Concurrent tasks calling Post / PostV2.
NumTasks == 2
\* Largest buffer of the shared output channel (0 is unbuffered).
MaxCap == 1

-----------------------------------------------------------------------------
(* Strings                                                                 *)

Colon == <<58>>                             \* ":"

S_host == <<104, 111, 115, 116>>            \* "host"
S_Host == <<72, 111, 115, 116>>             \* "Host"
S_XA   == <<88, 45, 65>>                    \* "X-A"
S_xa   == <<120, 45, 97>>                   \* "x-a"
S_c1   == <<99, 49>>                        \* "c1"
S_c2   == <<99, 50>>                        \* "c2"
S_e1   == <<101, 49>>                       \* "e1"
S_e2   == <<101, 50>>                       \* "e2"

\* regexp class [\x00-\x1f]
IsControl(c) == c \in 0..31

\* unicode.IsSpace on the Latin-1 range, as strings.TrimSpace uses it
IsSpace(c) == c \in {9, 10, 11, 12, 13, 32, 133, 160}

IsUpper(c) == c \in 65..90
IsLower(c) == c \in 97..122

\* reg.ReplaceAllString(header, "") for reg = "[\x00-\x1f]+": every maximal run
\* of control characters is replaced by the empty string.
RECURSIVE ReplaceAllString(_)
ReplaceAllString(s) ==
    IF s = <<>> THEN <<>>
    ELSE IF IsControl(Head(s)) THEN ReplaceAllString(Tail(s))
    ELSE <<Head(s)>> \o ReplaceAllString(Tail(s))

\* strings.Index(s, sep) for a one-character sep, 1-based; 0 when absent.
Index(s, sep) ==
    IF \E i \in 1..Len(s) : s[i] = sep[1]
    THEN CHOOSE i \in 1..Len(s) : s[i] = sep[1] /\ \A j \in 1..(i - 1) : s[j] # sep[1]
    ELSE 0

\* strings.SplitN(s, sep, 2): at most two parts, cut at the first sep.
SplitN2(s, sep) ==
    LET i == Index(s, sep)
    IN  IF i = 0 THEN <<s>>
        ELSE <<SubSeq(s, 1, i - 1), SubSeq(s, i + 1, Len(s))>>

RECURSIVE TrimLeft(_)
TrimLeft(s) ==
    IF s # <<>> /\ IsSpace(Head(s)) THEN TrimLeft(Tail(s)) ELSE s

RECURSIVE TrimRight(_)
TrimRight(s) ==
    IF s # <<>> /\ IsSpace(s[Len(s)]) THEN TrimRight(SubSeq(s, 1, Len(s) - 1)) ELSE s

\* strings.TrimSpace
TrimSpace(s) == TrimRight(TrimLeft(s))

ToLowerChar(c) == IF IsUpper(c) THEN c + 32 ELSE c
ToUpperChar(c) == IF IsLower(c) THEN c - 32 ELSE c

\* strings.ToLower
ToLower(s) == [i \in 1..Len(s) |-> ToLowerChar(s[i])]

\* Go map read m[k]: the zero value when the key is absent.
MapGet(m, k, zero) == IF k \in DOMAIN m THEN m[k] ELSE zero

\* Go map write m[k] = v.
MapSet(m, k, v) == [x \in (DOMAIN m) \cup {k} |-> IF x = k THEN v ELSE m[x]]

EmptyMap == [x \in {} |-> x]

Range(s) == {s[i] : i \in DOMAIN s}

-----------------------------------------------------------------------------
(* Header / event normalisation                                            *)

\* convertToMap: every listed event becomes a key with value true.
RECURSIVE convertToMap_loop(_, _)
convertToMap_loop(eventsMap, events) ==
    IF events = <<>> THEN eventsMap
    ELSE convertToMap_loop(MapSet(eventsMap, Head(events), TRUE), Tail(events))

convertToMap(events) == convertToMap_loop(EmptyMap, events)

\* The panic Go raises for splitHeader[1] when SplitN returned one part.
IndexOutOfRange == "runtime error: index out of range [1] with length 1"

\* Faulty variant of the loop body: an earlier entry of a key is kept.
SanitizeBody_FirstWins(headerMap, header) ==
    LET clean       == ReplaceAllString(header)
        splitHeader == SplitN2(clean, Colon)
    IN  IF Len(splitHeader) < 2
        THEN [panic |-> IndexOutOfRange, headerMap |-> headerMap]
        ELSE LET headerKey == TrimSpace(splitHeader[1])
                 headerVal == TrimSpace(splitHeader[2])
             IN  [panic |-> "none",
                  headerMap |-> IF headerKey # <<>> /\ headerKey \notin DOMAIN headerMap
                                THEN MapSet(headerMap, headerKey, headerVal)
                                ELSE headerMap]

\* One iteration of the loop of convertToMapAndSanitize on the map built so
\* far.  splitHeader[1] is read without a length check.
SanitizeBody(headerMap, header) ==
    LET clean       == ReplaceAllString(header)
        splitHeader == SplitN2(clean, Colon)
    IN  IF Len(splitHeader) < 2
        THEN [panic |-> IndexOutOfRange, headerMap |-> headerMap]
        ELSE LET headerKey == TrimSpace(splitHeader[1])
                 headerVal == TrimSpace(splitHeader[2])
             IN  [panic |-> "none",
                  headerMap |-> IF headerKey # <<>>
                                THEN MapSet(headerMap, headerKey, headerVal)
                                ELSE headerMap]

RECURSIVE Sanitize_loop(_, _)
Sanitize_loop(headerMap, headers) ==
    IF headers = <<>> THEN [panic |-> "none", headerMap |-> headerMap]
    ELSE LET r == SanitizeBody(headerMap, Head(headers))
         IN  IF r.panic # "none" THEN r
             ELSE Sanitize_loop(r.headerMap, Tail(headers))

\* convertToMapAndSanitize: [panic, headerMap]; panic # "none" when the
\* function does not return.
convertToMapAndSanitize(headers) == Sanitize_loop(EmptyMap, headers)

-----------------------------------------------------------------------------
(* EndpointConfig and NewEndpointClient                                    *)

\* A nil *EndpointConfig, and an EndpointConfig whose fields name the objects
\* they point to ("nil" when unset).
NilCfg == [nil |-> TRUE, HTTPClient |-> "nil", Log |-> "nil",
           ResponseHandler |-> "nil", OutCh |-> "nil"]

\* The bundle a session passes to all its clients.
SharedCfg == [nil |-> FALSE, HTTPClient |-> "nil", Log |-> "nil",
              ResponseHandler |-> "handler", OutCh |-> "outCh"]

\* The defaulting of NewEndpointClient: Log, HTTPClient and ResponseHandler
\* get defaults, OutCh is left as it is.
FillDefaults(cfg) ==
    LET c0 == IF cfg.nil
              THEN [nil |-> FALSE, HTTPClient |-> "nil", Log |-> "nil",
                    ResponseHandler |-> "nil", OutCh |-> "nil"]
              ELSE cfg
        c1 == IF c0.Log = "nil" THEN [c0 EXCEPT !.Log = "discard"] ELSE c0
        c2 == IF c1.HTTPClient = "nil"
              THEN [c1 EXCEPT !.HTTPClient = "noRedirect30s"] ELSE c1
    IN  IF c2.ResponseHandler = "nil"
        THEN [c2 EXCEPT !.ResponseHandler = "noop"] ELSE c2

\* NewEndpointClient: [panic, client].
NewEndpointClient(url, headers, connect, events, isEventDestination, cfg) ==
    LET h == convertToMapAndSanitize(headers)
    IN  [panic  |-> h.panic,
         client |-> [URL                |-> url,
                     headers            |-> h.headerMap,
                     connect            |-> connect,
                     events             |-> convertToMap(events),
                     isEventDestination |-> isEventDestination,
                     cfg                |-> FillDefaults(cfg)]]

-----------------------------------------------------------------------------
(* Routing predicates                                                      *)

\* Faulty variant: the mode of the request is not compared.
SupportsEventType_AnyMode(c, connect, eventType) ==
    MapGet(c.events, "*", FALSE) \/ MapGet(c.events, eventType, FALSE)

SupportsEventType(c, connect, eventType) ==
    IF connect # c.connect THEN FALSE
    ELSE IF MapGet(c.events, "*", FALSE) \/ MapGet(c.events, eventType, FALSE)
         THEN TRUE
         ELSE FALSE

\* Faulty variant: a context is accepted in either mode.
SupportsContext_AnyMode(c, context) == context # ""

SupportsContext(c, context) ==
    IF c.connect THEN context # "" ELSE context = ""

-----------------------------------------------------------------------------
(* Inputs                                                                  *)

\* Characters of the raw header arguments: tab (a control character that is
\* also white space), space, colon and a letter.
Alphabet == {9, 32, 58, 97}

\* A flattened list of header arguments: the entries' characters, a negative
\* number marking the end of an entry.
IsSep(c) == c < 0

FlatArgs == UNION {[1..n -> Alphabet \cup {-1}] : n \in 0..MaxArgChars}

\* The list of entries a flattened argument list stands for.
RECURSIVE EntriesOf(_, _)
EntriesOf(flat, cur) ==
    IF flat = <<>> THEN (IF cur = <<>> THEN <<>> ELSE <<cur>>)
    ELSE IF IsSep(Head(flat)) THEN <<cur>> \o EntriesOf(Tail(flat), <<>>)
    ELSE EntriesOf(Tail(flat), Append(cur, Head(flat)))

EventNames == {"*", "charge.succeeded", "customer.created"}
QueriedEventTypes == EventNames \cup {"invoice.paid", ""}
Contexts == {"", "acct_123"}

EventLists == UNION {[1..n -> EventNames] : n \in 0..MaxEvents}

\* A URL string, given by what url.Parse makes of it: "http://l<i>/hook", and
\* "://hook", which has no scheme and does not parse.
GoodURL(i) == [scheme |-> "http", host |-> <<108, 48 + i>>, path |-> "/hook"]
BadURL == [scheme |-> "", host |-> <<>>, path |-> "/hook"]

NoQuery == [op |-> "none", mode |-> FALSE, arg |-> "", result |-> FALSE]

NoTasks == [t \in {} |-> t]

ChanOf(cap) == [cap |-> cap, buf |-> <<>>]

-----------------------------------------------------------------------------
(* Construction and routing as state machines                              *)

\* The program calls NewEndpointClient with the arguments in args.
Construct ==
    /\ fault = "none"
    /\ clients = <<>>
    /\ LET r == NewEndpointClient(args.url, args.headers, args.connect,
                                  args.events, args.isEventDestination, args.cfg)
       IN  IF r.panic # "none"
           THEN fault' = r.panic /\ clients' = clients
           ELSE fault' = fault /\ clients' = <<r.client>>
    /\ UNCHANGED <<args, query, pending, pc, call, outCh, receiver, received>>

CallSupportsEventType ==
    /\ clients # <<>>
    /\ \E connect \in BOOLEAN, eventType \in QueriedEventTypes :
          query' = [op |-> "SupportsEventType", mode |-> connect, arg |-> eventType,
                    result |-> SupportsEventType(clients[1], connect, eventType)]
    /\ UNCHANGED <<args, clients, fault, pending, pc, call, outCh, receiver, received>>

CallSupportsContext ==
    /\ clients # <<>>
    /\ \E context \in Contexts :
          query' = [op |-> "SupportsContext", mode |-> FALSE, arg |-> context,
                    result |-> SupportsContext(clients[1], context)]
    /\ UNCHANGED <<args, clients, fault, pending, pc, call, outCh, receiver, received>>

IdleRest ==
    /\ clients = <<>>
    /\ fault = "none"
    /\ query = NoQuery
    /\ pending = NoTasks
    /\ pc = NoTasks
    /\ call = NoTasks
    /\ outCh = ChanOf(0)
    /\ receiver = FALSE
    /\ received = NoTasks

InitHeaders ==
    /\ \E flat \in FlatArgs :
          args = [url |-> GoodURL(1), headers |-> EntriesOf(flat, <<>>),
                  connect |-> FALSE, events |-> <<>>,
                  isEventDestination |-> FALSE, cfg |-> NilCfg]
    /\ IdleRest

NextHeaders == Construct

SpecHeaders == InitHeaders /\ [][NextHeaders]_vars

InitRoute ==
    /\ \E connect \in BOOLEAN, events \in EventLists, isED \in BOOLEAN,
          url \in {GoodURL(1), GoodURL(2)},
          headers \in {<<>>, <<S_Host \o Colon \o S_c1>>} :
          args = [url |-> url, headers |-> headers,
                  connect |-> connect, events |-> events,
                  isEventDestination |-> isED, cfg |-> SharedCfg]
    /\ IdleRest

NextRoute == Construct \/ CallSupportsEventType \/ CallSupportsContext

SpecRoute == InitRoute /\ [][NextRoute]_vars

-----------------------------------------------------------------------------
(* Building the request (Post and PostV2, up to the transport call)        *)

IsTokenChar(c) == IsUpper(c) \/ IsLower(c) \/ c \in 48..57 \/ c = 45

RECURSIVE CanonicalFrom(_, _)
CanonicalFrom(s, upper) ==
    IF s = <<>> THEN <<>>
    ELSE <<IF upper THEN ToUpperChar(Head(s)) ELSE ToLowerChar(Head(s))>>
         \o CanonicalFrom(Tail(s), Head(s) = 45)

\* textproto.CanonicalMIMEHeaderKey, which http.Header.Add applies to the key:
\* the first letter and every letter after a dash in upper case, the others in
\* lower case; a key with a character that is no token character is kept.
CanonicalMIMEHeaderKey(k) ==
    IF \A i \in 1..Len(k) : IsTokenChar(k[i]) THEN CanonicalFrom(k, TRUE) ELSE k

\* http.Header.Add: the value is appended to the values of the canonical key.
HeaderAdd(h, k, v) ==
    LET ck == CanonicalMIMEHeaderKey(k)
    IN  MapSet(h, ck, Append(MapGet(h, ck, <<>>), v))

\* url.Parse fails on a URL without a scheme, and http.NewRequest with it.
ParseFails(url) == url.scheme = ""

\* http.NewRequest(http.MethodPost, c.URL, body): Host is the URL's host and
\* the header set is empty.
NewRequest(url, body) ==
    [Method |-> "POST", URL |-> url, Host |-> url.host, Header |-> EmptyMap,
     Body |-> body]

\* for k, v := range evtCtx.requestHeaders { req.Header.Add(k, v) }, the keys
\* visited in the order `order`.
RECURSIVE AddEventHeaders(_, _, _)
AddEventHeaders(req, requestHeaders, order) ==
    IF order = <<>> THEN req
    ELSE AddEventHeaders(
             [req EXCEPT !.Header = HeaderAdd(@, Head(order), requestHeaders[Head(order)])],
             requestHeaders, Tail(order))

\* Faulty variant: a host header of the client is added like any other.
CustomHeader_NoHost(req, k, v) == [req EXCEPT !.Header = HeaderAdd(@, k, v)]

\* The body of the loop that adds the client's custom headers.
CustomHeader(req, k, v) ==
    IF ToLower(k) = S_host
    THEN [req EXCEPT !.Host = v]
    ELSE [req EXCEPT !.Header = HeaderAdd(@, k, v)]

\* for k, v := range c.headers { ... }, the keys visited in the order `order`.
RECURSIVE AddCustomHeaders(_, _, _)
AddCustomHeaders(req, headers, order) ==
    IF order = <<>> THEN req
    ELSE AddCustomHeaders(CustomHeader(req, Head(order), headers[Head(order)]),
                          headers, Tail(order))

\* The orders in which a range over a Go map may visit its keys.
RangeOrders(m) ==
    {p \in [1..Cardinality(DOMAIN m) -> DOMAIN m] : Range(p) = DOMAIN m}

\* The request Post and PostV2 hand to the transport.
BuildRequest(c, evtCtx, evtOrder, hdrOrder) ==
    AddCustomHeaders(
        AddEventHeaders(NewRequest(c.URL, evtCtx.requestBody),
                        evtCtx.requestHeaders, evtOrder),
        c.headers, hdrOrder)

-----------------------------------------------------------------------------
(* Post and PostV2                                                         *)

Methods == {"Post", "PostV2"}
TransportErrors == {"connection refused", "timeout"}
StatusCodes == {200, 302, 500}

NoRequest == [Method |-> "", URL |-> BadURL, Host |-> <<>>, Header |-> EmptyMap,
              Body |-> <<>>]
NoResponse == [StatusCode |-> 0, Body |-> "none"]

\* The error of url.Parse that http.NewRequest returns.
ConstructionError == "parse: missing protocol scheme"

\* The locals of a call that has not started.
NoCall == [method |-> "", client |-> 0, evtCtx |-> [requestBody |-> <<>>,
           requestHeaders |-> EmptyMap], req |-> NoRequest, transport |-> "",
           sent |-> FALSE, err |-> "nil", resp |-> NoResponse,
           handled |-> <<>>, panicking |-> FALSE, result |-> "running"]

\* The transport each method sends through.
TransportOf(method, c) ==
    IF method = "Post" THEN c.cfg.HTTPClient ELSE "http.DefaultClient"

\* websocket.ErrorElement{Error: FailedToPostError{Err: err}}
ErrorElement(err) == [Error |-> [type |-> "FailedToPostError", Err |-> err]]

\* The number of error records of task t on the channel or already taken from it.
InFlight(t) == Cardinality({i \in DOMAIN outCh.buf : outCh.buf[i].from = t})
Emitted(t) == InFlight(t) + Len(received[t])

\* Entry of Post / PostV2 up to the transport call: the request is built, or
\* http.NewRequest fails and the error is returned.
Start(t) ==
    /\ fault = "none"
    /\ pc[t] = "idle"
    /\ LET w == pending[t]
           c == clients[w.client]
       IN  IF ParseFails(c.URL)
           THEN /\ call' = [call EXCEPT ![t] =
                       [NoCall EXCEPT !.method = w.method, !.client = w.client,
                                      !.evtCtx = w.evtCtx,
                                      !.result = ConstructionError]]
                /\ pc' = [pc EXCEPT ![t] = "done"]
           ELSE /\ \E eo \in RangeOrders(w.evtCtx.requestHeaders),
                      ho \in RangeOrders(c.headers) :
                      call' = [call EXCEPT ![t] =
                          [NoCall EXCEPT !.method = w.method, !.client = w.client,
                                         !.evtCtx = w.evtCtx,
                                         !.transport = TransportOf(w.method, c),
                                         !.req = BuildRequest(c, w.evtCtx, eo, ho)]]
                /\ pc' = [pc EXCEPT ![t] = "do"]
    /\ UNCHANGED <<args, clients, fault, query, pending, outCh, receiver, received>>

\* Client.Do returns an error: the call goes on to report it.
DoFails(t) ==
    /\ fault = "none"
    /\ pc[t] = "do"
    /\ \E e \in TransportErrors :
          call' = [call EXCEPT ![t].sent = TRUE, ![t].err = e]
    /\ pc' = [pc EXCEPT ![t] = "send"]
    /\ UNCHANGED <<args, clients, fault, query, pending, outCh, receiver, received>>

\* Faulty variant: the URL is read from the first client, not the call's own.
HandlerArgs_FirstClient(t, resp) ==
    [handler |-> clients[call[t].client].cfg.ResponseHandler,
     evtCtx |-> call[t].evtCtx, url |-> clients[1].URL, resp |-> resp]

\* What the handler is called with: the call's event context, the URL of the
\* call's client, the response.
HandlerArgs(t, resp) ==
    [handler |-> clients[call[t].client].cfg.ResponseHandler,
     evtCtx |-> call[t].evtCtx, url |-> clients[call[t].client].URL, resp |-> resp]

\* Faulty variant: the body is closed before the handler is called.
OnResponse_CloseFirst(t, status) ==
    [call[t] EXCEPT !.sent = TRUE,
                    !.resp = [StatusCode |-> status, Body |-> "closed"],
                    !.handled = Append(@, HandlerArgs(t, [StatusCode |-> status]))]

\* Client.Do returned a response: its body is open, the close is deferred and
\* ProcessResponse is called.
OnResponse(t, status) ==
    [call[t] EXCEPT !.sent = TRUE,
                    !.resp = [StatusCode |-> status, Body |-> "open"],
                    !.handled = Append(@, HandlerArgs(t, [StatusCode |-> status]))]

\* Client.Do returns a response, of any status: the handler is entered.
DoResponds(t) ==
    /\ fault = "none"
    /\ pc[t] = "do"
    /\ \E status \in StatusCodes :
          call' = [call EXCEPT ![t] = OnResponse(t, status)]
    /\ pc' = [pc EXCEPT ![t] = "inHandler"]
    /\ UNCHANGED <<args, clients, fault, query, pending, outCh, receiver, received>>

\* The channel the client's configuration names; "nil" when it names none.
OutChOf(c) == c.cfg.OutCh

\* A send on the channel can complete: a receiver waits, or the buffer has room.
\* A send on a nil channel never completes.
CanSend(c) ==
    /\ OutChOf(c) # "nil"
    /\ \/ receiver /\ outCh.buf = <<>>
       \/ Len(outCh.buf) < outCh.cap

\* Faulty variant: the error is returned without a record being sent.
Send_Drop(t) ==
    /\ fault = "none"
    /\ pc[t] = "send"
    /\ pc' = [pc EXCEPT ![t] = "done"]
    /\ call' = [call EXCEPT ![t].result = call[t].err]
    /\ UNCHANGED <<args, clients, fault, query, pending, outCh, receiver, received>>

\* c.cfg.OutCh <- websocket.ErrorElement{...}; return err.  The send blocks
\* until the channel takes the record.
Send(t) ==
    /\ fault = "none"
    /\ pc[t] = "send"
    /\ CanSend(clients[call[t].client])
    /\ IF receiver /\ outCh.buf = <<>>
       THEN /\ received' = [received EXCEPT ![t] = Append(@, ErrorElement(call[t].err))]
            /\ receiver' = FALSE
            /\ outCh' = outCh
       ELSE /\ outCh' = [outCh EXCEPT !.buf =
                            Append(@, [from |-> t, elem |-> ErrorElement(call[t].err)])]
            /\ UNCHANGED <<receiver, received>>
    /\ pc' = [pc EXCEPT ![t] = "done"]
    /\ call' = [call EXCEPT ![t].result = call[t].err]
    /\ UNCHANGED <<args, clients, fault, query, pending>>

\* ProcessResponse returns.
HandlerReturns(t) ==
    /\ fault = "none"
    /\ pc[t] = "inHandler"
    /\ pc' = [pc EXCEPT ![t] = "deferred"]
    /\ UNCHANGED <<args, clients, fault, query, pending, call, outCh, receiver, received>>

\* ProcessResponse panics: Post unwinds.
HandlerPanics(t) ==
    /\ fault = "none"
    /\ pc[t] = "inHandler"
    /\ pc' = [pc EXCEPT ![t] = "deferred"]
    /\ call' = [call EXCEPT ![t].panicking = TRUE]
    /\ UNCHANGED <<args, clients, fault, query, pending, outCh, receiver, received>>

\* The deferred resp.Body.Close() runs; the call returns nil, or the panic
\* goes on and ends the program.
CloseBody(t) ==
    /\ fault = "none"
    /\ pc[t] = "deferred"
    /\ pc' = [pc EXCEPT ![t] = "done"]
    /\ call' = [call EXCEPT ![t].resp.Body = "closed",
                            ![t].result = IF call[t].panicking THEN "panic" ELSE "nil"]
    /\ fault' = IF call[t].panicking THEN "panic in ResponseHandler" ELSE fault
    /\ UNCHANGED <<args, clients, query, pending, outCh, receiver, received>>

\* The consumer of the channel starts a receive and waits for a sender.
ReceiverWaits ==
    /\ fault = "none"
    /\ pc # NoTasks
    /\ ~receiver
    /\ outCh.buf = <<>>
    /\ receiver' = TRUE
    /\ UNCHANGED <<args, clients, fault, query, pending, pc, call, outCh, received>>

\* The consumer of the channel takes the oldest buffered record.
ReceiverTakes ==
    /\ fault = "none"
    /\ outCh.buf # <<>>
    /\ LET m == Head(outCh.buf)
       IN  /\ received' = [received EXCEPT ![m.from] = Append(@, m.elem)]
           /\ outCh' = [outCh EXCEPT !.buf = Tail(@)]
    /\ UNCHANGED <<args, clients, fault, query, pending, pc, call, receiver>>

TaskStep(t) ==
    \/ Start(t)
    \/ DoFails(t)
    \/ DoResponds(t)
    \/ Send(t)
    \/ HandlerReturns(t)
    \/ HandlerPanics(t)
    \/ CloseBody(t)

Next ==
    \/ \E t \in DOMAIN pc : Start(t)
    \/ \E t \in DOMAIN pc : DoFails(t)
    \/ \E t \in DOMAIN pc : DoResponds(t)
    \/ \E t \in DOMAIN pc : Send(t)
    \/ \E t \in DOMAIN pc : HandlerReturns(t)
    \/ \E t \in DOMAIN pc : HandlerPanics(t)
    \/ \E t \in DOMAIN pc : CloseBody(t)
    \/ ReceiverWaits
    \/ ReceiverTakes

\* The event context task t forwards.
EventOf(t) == [requestBody |-> <<101, 48 + t>>,
               requestHeaders |-> (S_XA :> S_e1)]

\* The header arguments client i is built from: "Host:c1" for the first, "X-A:c2"
\* for the others.
HeaderArgsOf(i) == IF i = 1 THEN <<S_Host \o Colon \o S_c1>> ELSE <<S_XA \o Colon \o S_c2>>

\* n tasks and n clients, task t posting to client t: client i has its own URL
\* or one that does not parse, and was built with the session's bundle or (when
\* withNil) with no bundle.
InitCalls(n, withNil) ==
    /\ args = [url |-> GoodURL(1), headers |-> <<>>, connect |-> FALSE,
               events |-> <<>>, isEventDestination |-> FALSE, cfg |-> NilCfg]
    /\ \E bad \in SUBSET (1..n), nocfg \in (IF withNil THEN SUBSET (1..n) ELSE {{}}) :
          clients = [i \in 1..n |->
              NewEndpointClient(IF i \in bad THEN BadURL ELSE GoodURL(i),
                                HeaderArgsOf(i), FALSE, <<"*">>, FALSE,
                                IF i \in nocfg THEN NilCfg ELSE SharedCfg).client]
    /\ fault = "none"
    /\ query = NoQuery
    /\ \E ms \in [1..n -> Methods] :
          pending = [t \in 1..n |->
                        [client |-> t, method |-> ms[t], evtCtx |-> EventOf(t)]]
    /\ pc = [t \in 1..n |-> "idle"]
    /\ call = [t \in 1..n |-> NoCall]
    /\ \E cap \in 0..MaxCap : outCh = ChanOf(cap)
    /\ receiver = FALSE
    /\ received = [t \in 1..n |-> <<>>]

Init == InitCalls(NumTasks, FALSE)

Spec == Init /\ [][Next]_vars

\* One call, the task and the channel's consumer both scheduled fairly.
InitOne == InitCalls(1, TRUE)

FairSpec ==
    /\ InitOne
    /\ [][Next]_vars
    /\ \A t \in {1} : WF_vars(TaskStep(t))
    /\ WF_vars(ReceiverWaits)
    /\ WF_vars(ReceiverTakes)

-----------------------------------------------------------------------------
(* Request building on its own: one client with any sanitized header map,   *)
(* one event with any header map.                                          *)

HeaderMaps(keys, vals, max) ==
    UNION {[K -> vals] : K \in {K \in SUBSET keys : Cardinality(K) <= max}}

ClientHeaderMaps == HeaderMaps({S_Host, S_host, S_XA, S_xa}, {S_c1, S_c2}, MaxClientHeaders)
EventHeaderMaps == HeaderMaps({S_Host, S_host, S_XA, S_xa}, {S_e1, S_e2}, MaxEventHeaders)

InitBuild ==
    /\ args = [url |-> GoodURL(1), headers |-> <<>>, connect |-> FALSE,
               events |-> <<>>, isEventDestination |-> FALSE, cfg |-> NilCfg]
    /\ \E hm \in ClientHeaderMaps :
          clients = <<[NewEndpointClient(GoodURL(1), <<>>, FALSE, <<"*">>, FALSE,
                                         SharedCfg).client EXCEPT !.headers = hm]>>
    /\ fault = "none"
    /\ query = NoQuery
    /\ \E m \in Methods, em \in EventHeaderMaps :
          pending = <<[client |-> 1, method |-> m,
                       evtCtx |-> [requestBody |-> S_e1, requestHeaders |-> em]]>>
    /\ pc = <<"idle">>
    /\ call = <<NoCall>>
    /\ outCh = ChanOf(0)
    /\ receiver = FALSE
    /\ received = << <<>> >>

NextBuild == \E t \in DOMAIN pc : Start(t)

SpecBuild == InitBuild /\ [][NextBuild]_vars

-----------------------------------------------------------------------------
(* Properties                                                              *)

Tasks == DOMAIN pc
ClientOf(t) == clients[pending[t].client]
TransportFailed(t) == call[t].err # "nil"
Responded(t) == call[t].resp.Body # "none"
\* The records of task t, on the channel and taken from it.
RecordsOf(t) ==
    {outCh.buf[i].elem : i \in {j \in DOMAIN outCh.buf : outCh.buf[j].from = t}}
        \cup Range(received[t])

\* C1: a call puts at most one error record on the output channel; none unless
\* the transport failed (so none when http.NewRequest fails, which is returned
\* at once with no request sent, and none when the transport returns a
\* response); and a call that has returned after a transport failure has put
\* exactly one record, which wraps the transport's error, has returned that
\* error and has not called the Response Handler.
C1_ErrorRecords ==
    \A t \in Tasks :
        /\ Emitted(t) <= 1
        /\ ~TransportFailed(t) => Emitted(t) = 0
        /\ Responded(t) => Emitted(t) = 0
        /\ (pc[t] = "done" /\ ParseFails(ClientOf(t).URL)) =>
               /\ call[t].result = ConstructionError
               /\ ~call[t].sent
               /\ Emitted(t) = 0
               /\ call[t].handled = <<>>
        /\ TransportFailed(t) =>
               /\ call[t].handled = <<>>
               /\ ~Responded(t)
               /\ RecordsOf(t) \subseteq {ErrorElement(call[t].err)}
               /\ pc[t] = "send" => Emitted(t) = 0
               /\ pc[t] = "done" => (Emitted(t) = 1 /\ call[t].result = call[t].err)

\* C1 witness: two calls whose transports failed with different errors have both
\* returned, one record of each taken by the consumer.
C1_Witness ==
    \E t, u \in Tasks :
        /\ pc[t] = "done" /\ pc[u] = "done"
        /\ call[t].err = "timeout" /\ call[u].err = "connection refused"
        /\ Len(received[t]) = 1 /\ Len(received[u]) = 1

\* C2: when the transport returns a response, of any status, the Response
\* Handler is called exactly once, with the call's event context, the client's
\* URL and that response; the body is open while the handler runs and closed
\* when the call has ended, by return or by panic; the call returns no error.
C2_HandlerOnceThenClose ==
    \A t \in Tasks :
        /\ ~Responded(t) => call[t].handled = <<>>
        /\ Responded(t) =>
               /\ Len(call[t].handled) = 1
               /\ call[t].handled[1].evtCtx = pending[t].evtCtx
               /\ call[t].handled[1].url = ClientOf(t).URL
               /\ call[t].handled[1].resp.StatusCode = call[t].resp.StatusCode
               /\ call[t].handled[1].handler = ClientOf(t).cfg.ResponseHandler
               /\ pc[t] = "inHandler" => call[t].resp.Body = "open"
               /\ call[t].resp.Body = "closed" => pc[t] = "done"
               /\ pc[t] = "done" => call[t].resp.Body = "closed"
               /\ call[t].result \in {"running", "nil", "panic"}
               /\ (pc[t] = "done" /\ ~call[t].panicking) => call[t].result = "nil"

\* C2 witness: a call that got a 302 and a call that got a 500 have both
\* returned nil with the body closed.
C2_Witness ==
    \E t, u \in Tasks :
        /\ pc[t] = "done" /\ call[t].resp.StatusCode = 302 /\ call[t].result = "nil"
        /\ pc[u] = "done" /\ call[u].resp.StatusCode = 500 /\ call[u].result = "nil"
        /\ call[t].resp.Body = "closed" /\ call[u].resp.Body = "closed"

\* C3: once the transport has failed, the call returns the error to its caller,
\* whatever the state of the output channel.
C3_FailureReportReturns ==
    (pc[1] = "send") ~> (pc[1] = "done" /\ call[1].result = call[1].err)

\* Every Response Handler invocation has the event context and the URL of its
\* own call and of no other call; a call whose transport responded returns nil.
C4_Pairing ==
    \A t \in Tasks :
        /\ \A i \in DOMAIN call[t].handled :
              /\ call[t].handled[i].evtCtx = pending[t].evtCtx
              /\ call[t].handled[i].url = ClientOf(t).URL
              /\ \A u \in Tasks \ {t} :
                    /\ call[t].handled[i].evtCtx # pending[u].evtCtx
                    /\ ClientOf(u).URL # ClientOf(t).URL =>
                           call[t].handled[i].url # ClientOf(u).URL
        /\ (Responded(t) /\ pc[t] = "done" /\ ~call[t].panicking) =>
               call[t].result = "nil"

\* C4: with concurrent calls on clients of distinct URLs that share one bundle,
\* every Response Handler invocation gets the event context and the URL of its
\* own call and of no other, a call whose transport responded returns no error,
\* and no step of any call changes a client (or the event a task forwards).
C4_NoCrossTalk == [](C4_Pairing) /\ [][clients' = clients /\ pending' = pending]_vars

\* C4 witness: every task has posted to its own client, all URLs distinct and
\* all clients on the shared bundle, and every call has returned nil after one
\* handler invocation.
C4_Witness ==
    /\ Cardinality(Tasks) >= 2
    /\ \A t \in Tasks :
          /\ pc[t] = "done" /\ call[t].result = "nil"
          /\ Len(call[t].handled) = 1
          /\ ClientOf(t).cfg.ResponseHandler = "handler"
          /\ ClientOf(t).cfg.OutCh = "outCh"
    /\ \A t, u \in Tasks : t # u => ClientOf(t).URL # ClientOf(u).URL

-----------------------------------------------------------------------------
(* Properties of the request                                               *)

IsHostKey(k) == ToLower(k) = S_host
HostKeys(m) == {k \in DOMAIN m : IsHostKey(k)}
\* The values the header set of req holds under the name of k.
ValuesFor(req, k) == Range(MapGet(req.Header, CanonicalMIMEHeaderKey(k), <<>>))
Built(t) == pc[t] = "do"

\* C5: for every key that the event's headers and the client's headers share
\* (and that goes to the header set), the request carries the client's value
\* and not the event's.
C5_ClientValueTakesPrecedence ==
    \A t \in Tasks : Built(t) =>
        \A k \in (DOMAIN pending[t].evtCtx.requestHeaders) \cap (DOMAIN ClientOf(t).headers) :
            ~IsHostKey(k) =>
                /\ ClientOf(t).headers[k] \in ValuesFor(call[t].req, k)
                /\ pending[t].evtCtx.requestHeaders[k] \notin ValuesFor(call[t].req, k)

\* C6 as claimed: with a host key in the client's headers, Host is that header's
\* value and the header set has no Host entry in any letter case, for every
\* event; any other client header is in the header set, and Host is the URL's
\* host when the client has no host key.
C6_HostNeverInHeaderSet ==
    \A t \in Tasks : Built(t) =>
        LET c == ClientOf(t)
            req == call[t].req
        IN  /\ \A k \in HostKeys(c.headers) :
                  /\ req.Host = c.headers[k]
                  /\ \A hk \in DOMAIN req.Header : ~IsHostKey(hk)
            /\ \A k \in (DOMAIN c.headers) \ HostKeys(c.headers) :
                  c.headers[k] \in ValuesFor(req, k)
            /\ HostKeys(c.headers) = {} => req.Host = c.URL.host

\* C6 amended: with host keys in the client's headers, Host is the value of one
\* of them; the client's host headers add nothing to the header set, whose Host
\* entry holds exactly the values of the event's own host headers (and is absent
\* when the event has none); any other client header is in the header set, and
\* Host is the URL's host when the client has no host key.
C6_ClientHostGoesToHostField ==
    \A t \in Tasks : Built(t) =>
        LET c == ClientOf(t)
            e == pending[t].evtCtx.requestHeaders
            req == call[t].req
        IN  /\ HostKeys(c.headers) # {} =>
                  req.Host \in {c.headers[k] : k \in HostKeys(c.headers)}
            /\ \A hk \in DOMAIN req.Header : IsHostKey(hk) => hk = S_Host
            /\ Len(MapGet(req.Header, S_Host, <<>>)) = Cardinality(HostKeys(e))
            /\ Range(MapGet(req.Header, S_Host, <<>>)) = {e[k] : k \in HostKeys(e)}
            /\ \A k \in (DOMAIN c.headers) \ HostKeys(c.headers) :
                  c.headers[k] \in ValuesFor(req, k)
            /\ HostKeys(c.headers) = {} => req.Host = c.URL.host

\* C6 witness: client header "host: c1", event header "Host: e1"; the request
\* has Host c1 and the event's Host entry in its header set.
C6_Witness ==
    \E t \in Tasks :
        /\ Built(t)
        /\ ClientOf(t).headers = (S_host :> S_c1)
        /\ pending[t].evtCtx.requestHeaders = (S_Host :> S_e1)
        /\ call[t].req.Host = S_c1
        /\ call[t].req.Header = (S_Host :> <<S_e1>>)

-----------------------------------------------------------------------------
(* Properties of construction and routing                                  *)

HasColon(h) == \E i \in 1..Len(h) : h[i] = 58
Constructed == clients # <<>>

\* C7: header arguments with an entry that has no colon never end in an
\* out-of-range fault.
C7_NoColonIsNoRangeFault ==
    (\E i \in DOMAIN args.headers : ~HasColon(args.headers[i])) => fault # IndexOutOfRange

\* C8: SupportsEventType returns true exactly when the mode asked for is the
\* mode the client was built with and the client's subscriptions list "*" or
\* the event type; the call leaves the client as built.
C8_SupportsEventType ==
    query.op = "SupportsEventType" =>
        /\ query.result <=>
              /\ query.mode = args.connect
              /\ ("*" \in Range(args.events) \/ query.arg \in Range(args.events))
        /\ clients[1].connect = args.connect
        /\ DOMAIN clients[1].events = Range(args.events)
        /\ clients[1].URL = args.url

\* C8 witness: a client subscribed to "*" is asked about the other mode and
\* answers false.
C8_Witness ==
    /\ query.op = "SupportsEventType"
    /\ "*" \in Range(args.events)
    /\ query.mode # args.connect
    /\ query.arg = "charge.succeeded"
    /\ ~query.result

\* C9: SupportsContext returns true exactly when the client is in connect mode
\* and the context is not empty, or is not in connect mode and the context is
\* empty, whatever its events, headers and URL.
C9_SupportsContext ==
    query.op = "SupportsContext" =>
        (query.result <=> \/ (args.connect /\ query.arg # "")
                          \/ (~args.connect /\ query.arg = ""))

\* C9 witness: a direct-mode client subscribed to "*" refuses a context.
C9_Witness ==
    /\ query.op = "SupportsContext"
    /\ ~args.connect
    /\ "*" \in Range(args.events)
    /\ args.headers # <<>>
    /\ query.arg = "acct_123"
    /\ ~query.result

NotControl(c) == ~(c \in 0..31)
Least(S) == CHOOSE x \in S : \A y \in S : x <= y
Greatest(S) == CHOOSE x \in S : \A y \in S : y <= x
\* s without its leading and trailing white space.
Trimmed(s) ==
    LET ink == {i \in 1..Len(s) : s[i] \notin {9, 10, 11, 12, 13, 32, 133, 160}}
    IN  IF ink = {} THEN <<>> ELSE SubSeq(s, Least(ink), Greatest(ink))
\* The key and the value an entry with a colon stands for.
FirstColon(s) == Least({i \in 1..Len(s) : s[i] = 58})
ExpectedKey(h) ==
    LET s == SelectSeq(h, NotControl) IN Trimmed(SubSeq(s, 1, FirstColon(s) - 1))
ExpectedVal(h) ==
    LET s == SelectSeq(h, NotControl) IN Trimmed(SubSeq(s, FirstColon(s) + 1, Len(s)))

\* C10: when every entry has a colon, construction succeeds and the header map
\* has exactly the non-empty keys of the entries, each with the value of the
\* last entry of that key.
C10_LastWriteWins ==
    (\A i \in DOMAIN args.headers : HasColon(args.headers[i])) =>
        /\ fault = "none"
        /\ Constructed =>
              LET m == clients[1].headers
                  keys == {ExpectedKey(args.headers[i]) : i \in DOMAIN args.headers} \ {<<>>}
              IN  /\ DOMAIN m = keys
                  /\ \A k \in keys :
                        m[k] = ExpectedVal(args.headers[
                                   Greatest({i \in DOMAIN args.headers :
                                                ExpectedKey(args.headers[i]) = k})])

\* C10 witness: two entries that spell one key differently (white space, a
\* control character) and give it different values; the map has the second value.
C10_Witness ==
    /\ Constructed
    /\ Len(args.headers) = 2
    /\ HasColon(args.headers[1]) /\ HasColon(args.headers[2])
    /\ ExpectedKey(args.headers[1]) = ExpectedKey(args.headers[2])
    /\ ExpectedKey(args.headers[1]) # <<>>
    /\ ExpectedVal(args.headers[1]) # ExpectedVal(args.headers[2])
    /\ \E i \in DOMAIN args.headers[1] : args.headers[1][i] \in {9, 32}
    /\ clients[1].headers[ExpectedKey(args.headers[1])] = ExpectedVal(args.headers[2])

=============================================================================
